---- MODULE Spec2Model ----
(***************************************************************************)
(* The Zulip harvesting pipeline.                                          *)
(*                                                                         *)
(* Stage 1 (zulip_scraper, src/unnamed/part_000 lines 1-322) is a browser  *)
(* console script: rest() resolves the pagination sentinel and then runs   *)
(* processRows(), a recursive asynchronous function that reads the rows    *)
(* the host UI currently renders, extracts the rows it has not processed   *)
(* yet into the object overall_stuff, and either returns or scrolls the    *)
(* sentinel into view, waits and calls itself again.                       *)
(*                                                                         *)
(* Spec is the harvest session: one action per run of processRows between  *)
(* two suspension points.  StepSpec is the same session with a run of      *)
(* processRows taken apart into its statements and the host UI rendering   *)
(* rows while the driver is suspended.  MergeSpec applies the body of the  *)
(* row callback (lines 264-283) to drawn inputs, once and a second time.   *)
(* NormalizeSpec applies getPreprocessedMessageHtml (lines 89-157) to      *)
(* drawn element trees.                                                    *)
(*                                                                         *)
(* Stages 2 to 4 are node programs: zulip_cleaner and data_splitter        *)
(* (src/data_splitter.js) and markdown_compactor (src/unnamed/part_000     *)
(* lines 324-567).  CleanSpec, CollapseSpec, SanitizeSpec, DistributeSpec  *)
(* and CombineSpec apply one of their functions to drawn arguments;        *)
(* RunSpec is a run of one of the programs on drawn arguments and a drawn  *)
(* disk.                                                                   *)
(***************************************************************************)
EXTENDS Naturals, Sequences, FiniteSets, TLC

VARIABLES
    pc,                 \* position of the driver
    bookend,            \* rest(): result of document.querySelector(bookend_selector)
    overall_stuff,      \* the global object: topic -> array of {sender, content}
    processed_rows,     \* rest(): ids of the rows of every pass that went on
    prev_last_row_id,   \* rest(): id of the last row of the last pass that went on
    saved,              \* the objects handed to saveObjectAsJsonFile, in order
    pass,               \* history: what the last run of processRows read and did
    owed,               \* history: (topic, sender, content) of every row first read
    document,           \* StepSpec: the rows the host UI renders
    cur_rows,           \* StepSpec: processRows: rows, as read at line 215
    line,               \* StepSpec: the line processRows is at, 0 outside it
    m_pc,               \* MergeSpec: "in", "once" or "twice"
    m_stuff,            \* MergeSpec: overall_stuff before the merge
    m_topic,            \* MergeSpec: topic of the row
    m_frags,            \* MergeSpec: the row's .message_row elements
    m_once,             \* MergeSpec: result of the first merge
    m_twice,            \* MergeSpec: overall_stuff after the second merge
    f_pc,               \* offline functions: which function is applied, and where
    f_in,               \* offline functions: the drawn argument
    f_out,              \* offline functions: the result
    script,             \* offline run: the program node was started with
    args,               \* offline run: process.argv.slice(2)
    disk,               \* offline run: path -> directory or file
    proc,               \* offline run: position, parsed arguments, exit code
    writes,             \* offline run: history of the fs.writeFileSync calls
    errors              \* offline run: what console.error was called for

vars == <<pc, bookend, overall_stuff, processed_rows, prev_last_row_id, saved,
          pass, owed, document, cur_rows, line, m_pc, m_stuff, m_topic, m_frags, m_once, m_twice,
          f_pc, f_in, f_out, script, args, disk, proc, writes, errors>>

stepVars == <<document, cur_rows, line>>

harvestVars == <<pc, bookend, overall_stuff, processed_rows, prev_last_row_id,
                 saved, pass, owed, stepVars>>

mergeVars == <<m_pc, m_stuff, m_topic, m_frags, m_once, m_twice>>

functionVars == <<f_pc, f_in, f_out>>

runVars == <<script, args, disk, proc, writes, errors>>

offlineVars == <<functionVars, runVars>>

----------------------------------------------------------------------------
(* Bounds *)

\* rows in one rendered snapshot
MaxRows == 2

\* .message_row elements in one row of the session
MaxFrags == 2

\* .message_row elements in the row MergeSpec merges
MaxBatch == 3

\* records already stored under a topic when MergeSpec starts
MaxPrior == 1

----------------------------------------------------------------------------
(* Values *)

\* querySelector found no element
Null == "<null>"

\* the value of a variable that was assigned undefined
Undefined == "<undefined>"

\* the id of a row element that has no id attribute
NoId == ""

UnknownSender == "Unknown Sender"

InitialPrevLastRowId == "random_name_picked_for_something_that_will_never_be_a_row_id"

RECURSIVE SeqsUpTo(_, _)
SeqsUpTo(S, n) ==
    IF n = 0 THEN {<<>>}
    ELSE LET shorter == SeqsUpTo(S, n - 1)
         IN  shorter \cup {Append(s, x) : s \in {t \in shorter : Len(t) = n - 1}, x \in S}

Range(s) == {s[i] : i \in 1..Len(s)}

NoRepeat(s) == \A i, j \in 1..Len(s) : s[i] = s[j] => i = j

----------------------------------------------------------------------------
(* Content normalisation *)

\* innerHTML of the clone of a .message_content element.  The fragments drawn
\* here contain no div.codehilite.zulip-code-block, so the clone is returned as
\* it was copied.
getPreprocessedMessageHtml(message_content) == message_content

\* TurndownService.turndown: a paragraph becomes its text, plain text stays.
turndown(html) ==
    CASE html = "<p>x</p>" -> "x"
      [] html = "<p>y</p>" -> "y"
      [] OTHER -> html

\* String.prototype.trim on the sender labels drawn here.
trim(s) ==
    CASE s = " "     -> ""
      [] s = " bob " -> "bob"
      [] OTHER -> s

----------------------------------------------------------------------------
(* The message loop of a row, lines 269-283 *)

\* a truthiness test that finds every value truthy
Falsy_Never(v) == FALSE

\* a value the conditional operator takes as false
Falsy(v) == v = Undefined \/ v = Null \/ v = ""

\* line 273
CurSender(sender, previous_sender) ==
    IF sender # Null THEN trim(sender)
    ELSE IF ~Falsy(previous_sender) THEN previous_sender
    ELSE UnknownSender

\* line 278 comparing with the last stored record only
IsDuplicate_LastOnly(list, cur_sender, processed_content) ==
    /\ Len(list) > 0
    /\ list[Len(list)].sender = cur_sender
    /\ list[Len(list)].content = processed_content

\* line 278 finding no duplicate at all
IsDuplicate_Never(list, cur_sender, processed_content) == FALSE

\* line 278
IsDuplicate(list, cur_sender, processed_content) ==
    \E i \in 1..Len(list) :
        list[i].sender = cur_sender /\ list[i].content = processed_content

\* line 282 putting the record in front
AppendRecord_InFront(list, cur_sender, processed_content) ==
    <<[sender |-> cur_sender, content |-> processed_content]>> \o list

\* line 282
AppendRecord(list, cur_sender, processed_content) ==
    list \o <<[sender |-> cur_sender, content |-> processed_content]>>

\* lines 271-283: the for loop from message_rows[i] on; a duplicate is warned
\* about and returns from the row callback (lines 279-280), which ends the
\* loop.  senders are the values cur_sender took.
RECURSIVE MessageLoop(_, _, _, _, _)
MessageLoop(list, message_rows, i, previous_sender, senders) ==
    IF i > Len(message_rows)
    THEN [list |-> list, senders |-> senders, warned |-> FALSE]
    ELSE LET cur_sender == CurSender(message_rows[i].sender, previous_sender)
             processed_content ==
                 turndown(getPreprocessedMessageHtml(message_rows[i].html))
         IN  IF IsDuplicate(list, cur_sender, processed_content)
             THEN [list |-> list, senders |-> Append(senders, cur_sender),
                   warned |-> TRUE]
             ELSE MessageLoop(AppendRecord(list, cur_sender, processed_content),
                              message_rows, i + 1, cur_sender,
                              Append(senders, cur_sender))

\* overall_stuff[topic] read as an array: an absent key reads as no records
TopicList(stuff, topic) == IF topic \in DOMAIN stuff THEN stuff[topic] ELSE <<>>

\* lines 264-283: create the topic's array when it is missing, then run the loop
MergeRow(stuff, topic, message_rows) ==
    LET created == IF topic \in DOMAIN stuff THEN stuff ELSE stuff @@ (topic :> <<>>)
        looped  == MessageLoop(created[topic], message_rows, 1, Undefined, <<>>)
    IN  [stuff |-> [created EXCEPT ![topic] = looped.list],
         senders |-> looped.senders,
         warned |-> looped.warned]

----------------------------------------------------------------------------
(* The rows the host UI renders *)

RowIds == {"r1", "r2"}

TopicTexts == {"t1", "t2"}

SessionFrags == [sender : {Null, "bob"}, html : {"x"}]

\* A row: its id attribute, whether it has a .stream-topic-inner element and
\* that element's text, and its .message_row elements.  Rows whose content is
\* never read (no id, no topic) are drawn with no messages.
SessionRows ==
    {[id |-> NoId, hasTopic |-> TRUE, topic |-> "t1", frags |-> <<>>]}
    \cup [id : RowIds, hasTopic : {FALSE}, topic : {""}, frags : {<<>>}]
    \cup [id : RowIds, hasTopic : {TRUE}, topic : {""}, frags : {<<>>}]
    \cup [id : RowIds, hasTopic : {TRUE}, topic : TopicTexts,
          frags : SeqsUpTo(SessionFrags, MaxFrags)]

\* the rows that can follow rows in a document: element ids are unique
CanFollow(rows) ==
    {row \in SessionRows :
        row.id = NoId \/ \A i \in 1..Len(rows) : rows[i].id # row.id}

\* what document.querySelectorAll(row_selector) can return, up to n rows
RECURSIVE SnapshotsUpTo(_)
SnapshotsUpTo(n) ==
    IF n = 0 THEN {<<>>}
    ELSE LET shorter == SnapshotsUpTo(n - 1)
         IN  shorter \cup
             UNION {{Append(rows, row) : row \in CanFollow(rows)} :
                       rows \in {s \in shorter : Len(s) = n - 1}}

Snapshots == SnapshotsUpTo(MaxRows)

----------------------------------------------------------------------------
(* One run of processRows, lines 208-305 *)

EmptyObject == [t \in {} |-> <<>>]

\* line 221
CurRowIds(rows) == {rows[i].id : i \in 1..Len(rows)}

\* line 225 never finding the snapshot processed
AllProcessed_Never(cur_row_ids, processed) == FALSE

\* line 225: every id of the snapshot is in processed_rows
AllProcessed(cur_row_ids, processed) == \A id \in cur_row_ids : id \in processed

\* line 238 never finding the row processed
AlreadyProcessed_Never(processed, id) == FALSE

\* line 238
AlreadyProcessed(processed, id) == id \in processed

\* line 289
LastRowUnchanged(last_row_id, prev) == last_row_id = prev

\* line 295 assigning the ids of the snapshot instead of concatenating them
ConcatProcessed_Assign(processed, cur_row_ids) == cur_row_ids

\* line 295: processed_rows is only ever searched with includes(), so the
\* array is kept as the set of its elements
ConcatProcessed(processed, cur_row_ids) == processed \cup cur_row_ids

Event(op, id) == [op |-> op, id |-> id]

\* lines 241-253 left out: no button is clicked
ClickShowMore_Skip(acc, id) == acc

\* lines 241-253: every Show more button of the row is clicked; click() returns
\* at once and nothing looks at the effect
ClickShowMore(acc, id) == [acc EXCEPT !.log = Append(@, Event("expand", id))]

\* lines 231-284: the callback of rows.forEach for one row.  acc carries
\* overall_stuff, whether an exception was thrown, and the operations done on
\* rows so far ("expand": the Show more buttons were clicked, "topic": the
\* topic was read, "messages": the messages were read and all merged,
\* "duplicate": the messages were read up to one that was warned about).
RowCallback(acc, row, processed) ==
    IF Falsy(row.id) THEN acc
    ELSE IF AlreadyProcessed(processed, row.id) THEN acc
    ELSE LET expanded == ClickShowMore(acc, row.id)
         IN  IF ~row.hasTopic
             THEN \* line 255: textContent of null
                  [expanded EXCEPT !.threw = TRUE]
             ELSE LET asked == [expanded EXCEPT
                                   !.log = Append(@, Event("topic", row.id))]
                  IN  IF Falsy(row.topic) THEN asked
                      ELSE LET merged == MergeRow(asked.stuff, row.topic, row.frags)
                           IN  [asked EXCEPT
                                   !.stuff = merged.stuff,
                                   !.log = Append(@, Event(IF merged.warned
                                                           THEN "duplicate"
                                                           ELSE "messages", row.id))]

\* line 231: rows.forEach from rows[i] on; an exception ends it
RECURSIVE ForEachRow(_, _, _, _)
ForEachRow(acc, rows, i, processed) ==
    IF i > Len(rows) \/ acc.threw THEN acc
    ELSE ForEachRow(RowCallback(acc, rows[i], processed), rows, i + 1, processed)

\* the sender the fragment i of a row is said to have: the trimmed label of
\* the nearest labelled fragment at or before it, else "Unknown Sender"
NearestLabelSender(frags, i) ==
    LET labelled == {j \in 1..i : frags[j].sender # Null}
    IN  IF labelled = {} THEN UnknownSender
        ELSE trim(frags[CHOOSE j \in labelled : \A k \in labelled : k <= j].sender)

\* the (topic, sender, content) triples of a row as rendered
RowTriples(row) ==
    {[topic |-> row.topic,
      sender |-> NearestLabelSender(row.frags, i),
      content |-> turndown(getPreprocessedMessageHtml(row.frags[i].html))] :
        i \in 1..Len(row.frags)}

\* the triples of the rows of a snapshot that have an id and a topic label and
\* are read for the first time
NewTriples(rows, processed) ==
    UNION {RowTriples(rows[i]) :
              i \in {k \in 1..Len(rows) :
                        /\ rows[k].id # NoId
                        /\ rows[k].id \notin processed
                        /\ rows[k].hasTopic
                        /\ rows[k].topic # ""}}

PassRecord(rows, log, sentinel, exit) ==
    [ids |-> CurRowIds(rows),
     last |-> IF Len(rows) = 0 THEN Null ELSE rows[Len(rows)].id,
     log |-> log, sentinel |-> sentinel, exit |-> exit]

\* processRows from the end of the settle wait (line 213) to its return, its
\* exception or its next wait (line 301), on the snapshot rows
ProcessSnapshot(rows) ==
    LET cur_row_ids == CurRowIds(rows)
    IN
    IF Len(rows) = 0
    THEN \* lines 217-220
         /\ pc' = "TERMINATED"
         /\ pass' = PassRecord(rows, <<>>, FALSE, "no rows")
         /\ UNCHANGED <<overall_stuff, processed_rows, prev_last_row_id, owed>>
    ELSE IF AllProcessed(cur_row_ids, processed_rows)
    THEN \* lines 225-228
         /\ pc' = "TERMINATED"
         /\ pass' = PassRecord(rows, <<>>, FALSE, "no new rows")
         /\ UNCHANGED <<overall_stuff, processed_rows, prev_last_row_id, owed>>
    ELSE \E done \in {ForEachRow([stuff |-> overall_stuff, threw |-> FALSE,
                                   log |-> <<>>], rows, 1, processed_rows)} :
         LET last_row == rows[Len(rows)]
         IN  /\ overall_stuff' = done.stuff
             /\ owed' = owed \cup NewTriples(rows, processed_rows)
             /\ IF done.threw
                THEN \* TypeError at line 255: the promise of processRows rejects
                     /\ pc' = "ABORTED"
                     /\ pass' = PassRecord(rows, done.log, FALSE, "threw")
                     /\ UNCHANGED <<processed_rows, prev_last_row_id>>
                ELSE IF LastRowUnchanged(last_row.id, prev_last_row_id)
                THEN \* lines 289-292
                     /\ pc' = "TERMINATED"
                     /\ pass' = PassRecord(rows, done.log, FALSE, "last row unchanged")
                     /\ UNCHANGED <<processed_rows, prev_last_row_id>>
                ELSE /\ prev_last_row_id' = last_row.id
                     /\ processed_rows' = ConcatProcessed(processed_rows, cur_row_ids)
                     /\ IF bookend = Null
                        THEN \* line 297: scrollIntoView of null
                             /\ pc' = "ABORTED"
                             /\ pass' = PassRecord(rows, done.log, FALSE, "no bookend")
                        ELSE /\ pc' = "AWAITING_MORE"
                             /\ pass' = PassRecord(rows, done.log, TRUE, "more")

----------------------------------------------------------------------------
(* The harvest session *)

NotMerged == [stuff |-> EmptyObject, senders |-> <<>>, warned |-> FALSE]

MergeIdle ==
    /\ m_pc = "off"
    /\ m_stuff = EmptyObject
    /\ m_topic = ""
    /\ m_frags = <<>>
    /\ m_once = NotMerged
    /\ m_twice = NotMerged

\* node has not been started
RunIdle ==
    /\ script = "none"
    /\ args = <<>>
    /\ disk = <<>>
    /\ proc = [pc |-> "off", params |-> <<>>, exit |-> Null]
    /\ writes = <<>>
    /\ errors = <<>>

\* no offline stage runs
OfflineIdle ==
    /\ f_pc = "off"
    /\ f_in = <<>>
    /\ f_out = <<>>
    /\ RunIdle

\* rest() has not run: overall_stuff is {} (line 187)
HarvestIdle ==
    /\ pc = "PRIMED"
    /\ bookend = Null
    /\ overall_stuff = EmptyObject
    /\ processed_rows = {}
    /\ prev_last_row_id = InitialPrevLastRowId
    /\ saved = <<>>
    /\ pass = [ids |-> {}, last |-> Null, log |-> <<>>,
               sentinel |-> FALSE, exit |-> "none"]
    /\ owed = {}
    /\ document = <<>>
    /\ cur_rows = <<>>
    /\ line = 0

Init == HarvestIdle /\ MergeIdle /\ OfflineIdle

\* rest(), lines 189-206 and 306: the sentinel is looked up and processRows is
\* called; it suspends in the jiggle scroll and the settle wait
Start ==
    /\ pc = "PRIMED"
    /\ \E b \in {Null, "#bottom_whitespace"} : bookend' = b
    /\ pc' = "EXTRACTING"
    /\ UNCHANGED <<overall_stuff, processed_rows, prev_last_row_id, saved, pass, owed>>
    /\ UNCHANGED stepVars
    /\ UNCHANGED mergeVars
    /\ UNCHANGED offlineVars

\* lines 215-301: the settle wait is over; whatever the host UI renders now is
\* read and processed
ProcessRows ==
    /\ pc = "EXTRACTING"
    /\ \E rows \in Snapshots : ProcessSnapshot(rows)
    /\ UNCHANGED <<bookend, saved>>
    /\ UNCHANGED stepVars
    /\ UNCHANGED mergeVars
    /\ UNCHANGED offlineVars

\* lines 301-304 and 210-213: the wait after the sentinel trigger is over and
\* processRows calls itself
NextPass ==
    /\ pc = "AWAITING_MORE"
    /\ pc' = "EXTRACTING"
    /\ pass' = [pass EXCEPT !.log = <<>>]
    /\ UNCHANGED <<bookend, overall_stuff, processed_rows, prev_last_row_id, saved,
                   owed>>
    /\ UNCHANGED stepVars
    /\ UNCHANGED mergeVars
    /\ UNCHANGED offlineVars

\* line 306 without the await: line 309 runs as soon as processRows suspends
AwaitProcessRows_NoAwait(p) == p # "PRIMED"

\* line 306: rest() goes on to line 309 when the promise of processRows is
\* fulfilled, and never when it is rejected
AwaitProcessRows(p) == p = "TERMINATED"

\* lines 308-310: processRows has returned
Save ==
    /\ AwaitProcessRows(pc)
    /\ saved = <<>>
    /\ saved' = <<overall_stuff>>
    /\ UNCHANGED <<pc, bookend, overall_stuff, processed_rows, prev_last_row_id,
                   pass, owed>>
    /\ UNCHANGED stepVars
    /\ UNCHANGED mergeVars
    /\ UNCHANGED offlineVars

Next == Start \/ ProcessRows \/ NextPass \/ Save

Spec == Init /\ [][Next]_vars

\* the timers of the waits fire and the continuation of every await runs
FairSpec == Spec /\ WF_vars(Next)

----------------------------------------------------------------------------
(* One run of processRows statement by statement, with the host UI *)

\* rows the host UI renders in StepSpec: a row without id, and the rows r1 and
\* r2, either without topic label or under topic t1 with one message of bob
HostRows ==
    {row \in SessionRows :
        \/ ~row.hasTopic
        \/ /\ row.topic = "t1"
           /\ row.frags = IF row.id = NoId THEN <<>>
                          ELSE <<[sender |-> "bob", html |-> "x"]>>}

HostSnapshots ==
    {s \in SeqsUpTo(HostRows, MaxRows) :
        \A i \in 1..Len(s) : s[i] \in CanFollow(SubSeq(s, 1, i - 1))}

\* the awaits as they would be if rows.forEach at line 231 were awaited too
Suspended_AfterForEach(l) == l \in {210, 213, 287, 301}

\* the await expressions of processRows: lines 210, 213 and 301.  The script
\* runs on the page's one thread, so the page's own code runs only while the
\* driver is suspended in one of them
Suspended(l) == l \in {210, 213, 301}

\* rest(), lines 189-206 and 306: processRows is called and suspends in line 210
StepStart ==
    /\ pc = "PRIMED"
    /\ \E b \in {Null, "#bottom_whitespace"} : bookend' = b
    /\ pc' = "EXTRACTING"
    /\ line' = 210
    /\ UNCHANGED <<overall_stuff, processed_rows, prev_last_row_id, saved, pass, owed,
                   document, cur_rows>>
    /\ UNCHANGED mergeVars
    /\ UNCHANGED offlineVars

\* the host UI renders other rows
HostUI ==
    /\ Suspended(line)
    /\ \E rendered \in HostSnapshots \ {document} : document' = rendered
    /\ UNCHANGED <<pc, bookend, overall_stuff, processed_rows, prev_last_row_id, saved,
                   pass, owed, cur_rows, line>>
    /\ UNCHANGED mergeVars
    /\ UNCHANGED offlineVars

\* lines 210-213: simulateWindowJiggleScroll has returned, the settle wait begins
Jiggled ==
    /\ line = 210
    /\ line' = 213
    /\ UNCHANGED <<pc, bookend, overall_stuff, processed_rows, prev_last_row_id, saved,
                   pass, owed, document, cur_rows>>
    /\ UNCHANGED mergeVars
    /\ UNCHANGED offlineVars

\* lines 215-228: the settle wait is over, the rows are read and looked up in
\* processed_rows
ReadRows ==
    /\ line = 213
    /\ cur_rows' = document
    /\ IF Len(document) = 0
       THEN /\ pc' = "TERMINATED"
            /\ line' = 0
            /\ pass' = PassRecord(document, <<>>, FALSE, "no rows")
       ELSE IF AllProcessed(CurRowIds(document), processed_rows)
       THEN /\ pc' = "TERMINATED"
            /\ line' = 0
            /\ pass' = PassRecord(document, <<>>, FALSE, "no new rows")
       ELSE /\ pc' = pc
            /\ line' = 231
            /\ pass' = PassRecord(document, <<>>, FALSE, "none")
    /\ UNCHANGED <<bookend, overall_stuff, processed_rows, prev_last_row_id, saved,
                   owed, document>>
    /\ UNCHANGED mergeVars
    /\ UNCHANGED offlineVars

\* lines 231-284: rows.forEach
ForEach ==
    /\ line = 231
    /\ \E done \in {ForEachRow([stuff |-> overall_stuff, threw |-> FALSE,
                                log |-> <<>>], cur_rows, 1, processed_rows)} :
          /\ overall_stuff' = done.stuff
          /\ owed' = owed \cup NewTriples(cur_rows, processed_rows)
          /\ IF done.threw
             THEN /\ pc' = "ABORTED"
                  /\ line' = 0
                  /\ pass' = PassRecord(cur_rows, done.log, FALSE, "threw")
             ELSE /\ pc' = pc
                  /\ line' = 287
                  /\ pass' = PassRecord(cur_rows, done.log, FALSE, "none")
    /\ UNCHANGED <<bookend, processed_rows, prev_last_row_id, saved, document, cur_rows>>
    /\ UNCHANGED mergeVars
    /\ UNCHANGED offlineVars

\* lines 287-301: the last-row check, the two updates and the sentinel trigger
LastRowCheck ==
    /\ line = 287
    /\ LET last_row == cur_rows[Len(cur_rows)]
       IN  IF LastRowUnchanged(last_row.id, prev_last_row_id)
           THEN /\ pc' = "TERMINATED"
                /\ line' = 0
                /\ pass' = PassRecord(cur_rows, pass.log, FALSE, "last row unchanged")
                /\ UNCHANGED <<processed_rows, prev_last_row_id>>
           ELSE /\ prev_last_row_id' = last_row.id
                /\ processed_rows' = ConcatProcessed(processed_rows, CurRowIds(cur_rows))
                /\ IF bookend = Null
                   THEN /\ pc' = "ABORTED"
                        /\ line' = 0
                        /\ pass' = PassRecord(cur_rows, pass.log, FALSE, "no bookend")
                   ELSE /\ pc' = "AWAITING_MORE"
                        /\ line' = 301
                        /\ pass' = PassRecord(cur_rows, pass.log, TRUE, "more")
    /\ UNCHANGED <<bookend, overall_stuff, saved, owed, document, cur_rows>>
    /\ UNCHANGED mergeVars
    /\ UNCHANGED offlineVars

\* lines 301-304 and 210: the wait is over, processRows calls itself
Waited ==
    /\ line = 301
    /\ line' = 210
    /\ pc' = "EXTRACTING"
    /\ pass' = [pass EXCEPT !.log = <<>>]
    /\ UNCHANGED <<bookend, overall_stuff, processed_rows, prev_last_row_id, saved,
                   owed, document, cur_rows>>
    /\ UNCHANGED mergeVars
    /\ UNCHANGED offlineVars

StepNext ==
    StepStart \/ HostUI \/ Jiggled \/ ReadRows \/ ForEach \/ LastRowCheck \/ Waited \/ Save

StepSpec == Init /\ [][StepNext]_vars

----------------------------------------------------------------------------
(* The merge of one row applied to drawn inputs, once and again *)

MergeFrags == [sender : {Null, " ", "bob"}, html : {"x", "<p>x</p>", "y"}]

PriorRecords == [sender : {UnknownSender, "", "bob"}, content : {"x", "y"}]

\* the arrays a topic can hold: the loop never stores a record twice
PriorLists == {list \in SeqsUpTo(PriorRecords, MaxPrior) : NoRepeat(list)}

OtherLists == {<<>>, <<[sender |-> "bob", content |-> "x"]>>}

\* overall_stuff before the merge: the row's topic "t1" and the topic "t2",
\* each with or without a key
PriorStuffs ==
    {EmptyObject}
    \cup {("t1" :> list) : list \in PriorLists}
    \cup {("t2" :> other) : other \in OtherLists}
    \cup {("t1" :> list) @@ ("t2" :> other) : list \in PriorLists, other \in OtherLists}

MergeInit ==
    /\ HarvestIdle
    /\ OfflineIdle
    /\ m_pc = "in"
    /\ m_topic = "t1"
    /\ m_stuff \in PriorStuffs
    /\ m_frags \in SeqsUpTo(MergeFrags, MaxBatch)
    /\ m_once = NotMerged
    /\ m_twice = NotMerged

\* lines 264-283 on the drawn row
MergeOnce ==
    /\ m_pc = "in"
    /\ m_once' = MergeRow(m_stuff, m_topic, m_frags)
    /\ m_pc' = "once"
    /\ UNCHANGED <<m_stuff, m_topic, m_frags, m_twice>>
    /\ UNCHANGED harvestVars
    /\ UNCHANGED offlineVars

\* lines 264-283 on the same row again
MergeAgain ==
    /\ m_pc = "once"
    /\ m_twice' = MergeRow(m_once.stuff, m_topic, m_frags)
    /\ m_pc' = "twice"
    /\ UNCHANGED <<m_stuff, m_topic, m_frags, m_once>>
    /\ UNCHANGED harvestVars
    /\ UNCHANGED offlineVars

MergeNext == MergeOnce \/ MergeAgain

MergeSpec == MergeInit /\ [][MergeNext]_vars

----------------------------------------------------------------------------
(* Stage 2, zulip_cleaner (src/data_splitter.js lines 278-459).  A string   *)
(* is the sequence of its characters; an object is the sequence of its      *)
(* properties [key, value] in the order Object.entries lists them.          *)

\* '\n\n'
BlankLine == <<"\n", "\n">>

\* Array.prototype.join
RECURSIVE Join(_, _)
Join(strings, separator) ==
    IF Len(strings) = 0 THEN <<>>
    ELSE IF Len(strings) = 1 THEN strings[1]
    ELSE strings[1] \o separator \o Join(Tail(strings), separator)

KeySet(object) == {object[i].key : i \in 1..Len(object)}

\* "__proto__"
ProtoKey == <<"_", "_", "p", "r", "o", "t", "o", "_", "_">>

\* object[key] = value, for a string value and an object created by {}: the
\* key "__proto__" reaches the setter inherited from Object.prototype, which
\* ignores a value that is neither an object nor null
SetProperty(object, key, value) ==
    IF key = ProtoKey THEN object
    ELSE IF key \in KeySet(object)
    THEN [i \in 1..Len(object) |->
             IF object[i].key = key THEN [key |-> key, value |-> value]
             ELSE object[i]]
    ELSE Append(object, [key |-> key, value |-> value])

\* line 365 never finding the sender the same
SameSender_Never(message, currentSender) == FALSE

\* line 365
SameSender(message, currentSender) == message.sender = currentSender

\* lines 364-378: the loop from messages[i] on and the final push
RECURSIVE CollapseLoop(_, _, _, _, _)
CollapseLoop(messages, i, collapsed, currentSender, currentContent) ==
    IF i > Len(messages)
    THEN Append(collapsed, [sender |-> currentSender, content |-> currentContent])
    ELSE IF SameSender(messages[i], currentSender)
    THEN CollapseLoop(messages, i + 1, collapsed, currentSender,
                      currentContent \o BlankLine \o messages[i].content)
    ELSE CollapseLoop(messages, i + 1,
                      Append(collapsed, [sender |-> currentSender,
                                         content |-> currentContent]),
                      messages[i].sender, messages[i].content)

\* lines 357-379
collapseConsecutiveMessages(messages) ==
    IF Len(messages) = 0 THEN <<>>
    ELSE CollapseLoop(messages, 2, <<>>, messages[1].sender, messages[1].content)

\* line 394: `**${message.sender}:** ${message.content}`
MessageBlock(message) ==
    <<"*", "*">> \o message.sender \o <<":", "*", "*", " ">> \o message.content

\* lines 386-396
messagesToMarkdown(messages) ==
    IF Len(messages) = 0 THEN <<>>
    ELSE LET collapsedMessages == collapseConsecutiveMessages(messages)
         IN  Join([i \in 1..Len(collapsedMessages) |->
                      MessageBlock(collapsedMessages[i])], BlankLine)

\* lines 425-431: the loop over Object.entries(zulipData) from entry i on
RECURSIVE CleanTopics(_, _, _)
CleanTopics(zulipData, i, cleanedData) ==
    IF i > Len(zulipData) THEN cleanedData
    ELSE CleanTopics(zulipData, i + 1,
                     SetProperty(cleanedData, zulipData[i].key,
                                 messagesToMarkdown(zulipData[i].value)))

MaxMsgs == 3

CleanMessages == [sender : {<<"a">>, <<"b">>}, content : {<<"x">>, <<"y">>}]

\* the other topics of the file hold no message, or one
FewMessages == {<<>>, <<[sender |-> <<"b">>, content |-> <<"x">>]>>}

\* the topic keys of the parsed file, in order
CleanKeyOrders ==
    {<<>>, <<(<<"t">>)>>, <<ProtoKey>>, <<(<<"t">>), <<"u">>>>,
     <<(<<"t">>), ProtoKey>>, <<ProtoKey, <<"t">>>>}

\* what JSON.parse(rawData) can give (line 418)
ZulipDatas ==
    UNION {{[i \in 1..Len(keys) |->
                [key |-> keys[i], value |-> IF i = 1 THEN first ELSE other]] :
               first \in SeqsUpTo(CleanMessages, MaxMsgs), other \in FewMessages} :
           keys \in CleanKeyOrders}

CleanInit ==
    /\ HarvestIdle
    /\ MergeIdle
    /\ RunIdle
    /\ f_pc = "zulipData"
    /\ f_in \in ZulipDatas
    /\ f_out = <<>>

\* lines 423-431
Clean ==
    /\ f_pc = "zulipData"
    /\ f_out' = CleanTopics(f_in, 1, <<>>)
    /\ f_pc' = "cleanedData"
    /\ UNCHANGED f_in
    /\ UNCHANGED harvestVars
    /\ UNCHANGED mergeVars
    /\ UNCHANGED runVars

CleanSpec == CleanInit /\ [][Clean]_vars

\* the messages of one topic (line 427)
CollapseInit ==
    /\ HarvestIdle
    /\ MergeIdle
    /\ RunIdle
    /\ f_pc = "messages"
    /\ f_in \in SeqsUpTo(CleanMessages, MaxMsgs)
    /\ f_out = <<>>

\* line 389: collapseConsecutiveMessages(messages)
Collapse ==
    /\ f_pc = "messages"
    /\ f_out' = <<collapseConsecutiveMessages(f_in)>>
    /\ f_pc' = "collapsedMessages"
    /\ UNCHANGED f_in
    /\ UNCHANGED harvestVars
    /\ UNCHANGED mergeVars
    /\ UNCHANGED runVars

\* the function applied to what it returned
CollapseAgain ==
    /\ f_pc = "collapsedMessages"
    /\ f_out' = Append(f_out, collapseConsecutiveMessages(f_out[1]))
    /\ f_pc' = "again"
    /\ UNCHANGED f_in
    /\ UNCHANGED harvestVars
    /\ UNCHANGED mergeVars
    /\ UNCHANGED runVars

CollapseSpec == CollapseInit /\ [][Collapse \/ CollapseAgain]_vars

----------------------------------------------------------------------------
(* Stage 3, data_splitter (src/data_splitter.js lines 1-128) *)

\* line 46: the class [<>:"/\\|?*]
InvalidChars == {"<", ">", ":", "\"", "/", "\\", "|", "?", "*"}

\* line 47: characters of the class \s
Whitespace == {" ", "\t", "\n", "\r", "\f"}

UpperCase == <<"A", "B", "C", "D", "E", "F", "G", "H", "I", "J", "K", "L", "M",
               "N", "O", "P", "Q", "R", "S", "T", "U", "V", "W", "X", "Y", "Z">>

LowerCase == <<"a", "b", "c", "d", "e", "f", "g", "h", "i", "j", "k", "l", "m",
               "n", "o", "p", "q", "r", "s", "t", "u", "v", "w", "x", "y", "z">>

Drop(string, n) == SubSeq(string, n + 1, Len(string))

\* the length of the longest prefix of string made of characters of class
RECURSIVE PrefixIn(_, _)
PrefixIn(string, class) ==
    IF Len(string) = 0 \/ string[1] \notin class THEN 0
    ELSE 1 + PrefixIn(Tail(string), class)

\* line 46: .replace(/[<>:"/\\|?*]/g, '_')
ReplaceInvalid(string) ==
    [i \in 1..Len(string) |-> IF string[i] \in InvalidChars THEN "_" ELSE string[i]]

\* lines 47 and 48: .replace(/\s+/g, '_') is ReplaceRuns(string, Whitespace, 1)
\* and .replace(/_{2,}/g, '_') is ReplaceRuns(string, {"_"}, 2): every match,
\* found from the left and as long as possible, becomes one underscore
RECURSIVE ReplaceRuns(_, _, _)
ReplaceRuns(string, class, atLeast) ==
    IF Len(string) = 0 THEN <<>>
    ELSE LET n == PrefixIn(string, class)
         IN  IF n >= atLeast
             THEN <<"_">> \o ReplaceRuns(Drop(string, n), class, atLeast)
             ELSE IF n > 0
             THEN SubSeq(string, 1, n) \o ReplaceRuns(Drop(string, n), class, atLeast)
             ELSE <<string[1]>> \o ReplaceRuns(Tail(string), class, atLeast)

Reverse(string) == [i \in 1..Len(string) |-> string[Len(string) + 1 - i]]

\* line 49 removing only the leading underscores
TrimUnderscores_Leading(string) == Drop(string, PrefixIn(string, {"_"}))

\* line 49: .replace(/^_+|_+$/g, '')
TrimUnderscores(string) ==
    LET headless == Drop(string, PrefixIn(string, {"_"}))
    IN  SubSeq(headless, 1, Len(headless) - PrefixIn(Reverse(headless), {"_"}))

\* line 50: .toLowerCase()
toLowerCase(string) ==
    [i \in 1..Len(string) |->
        IF \E k \in 1..Len(UpperCase) : UpperCase[k] = string[i]
        THEN LowerCase[CHOOSE k \in 1..Len(UpperCase) : UpperCase[k] = string[i]]
        ELSE string[i]]

\* lines 43-51
sanitizeFilename(filename) ==
    toLowerCase(TrimUnderscores(ReplaceRuns(ReplaceRuns(ReplaceInvalid(filename),
                                                        Whitespace, 1),
                                            {"_"}, 2)))

MaxTopicLen == 4

\* the characters topic names are drawn from
TopicChars == {"<", "*", " ", "\t", "_", "A", "b"}

SanitizeInit ==
    /\ HarvestIdle
    /\ MergeIdle
    /\ RunIdle
    /\ f_pc = "filename"
    /\ f_in \in SeqsUpTo(TopicChars, MaxTopicLen)
    /\ f_out = <<>>

\* line 60
Sanitize ==
    /\ f_pc = "filename"
    /\ f_out' = sanitizeFilename(f_in)
    /\ f_pc' = "sanitizedHeader"
    /\ UNCHANGED f_in
    /\ UNCHANGED harvestVars
    /\ UNCHANGED mergeVars
    /\ UNCHANGED runVars

SanitizeSpec == SanitizeInit /\ [][Sanitize]_vars

----------------------------------------------------------------------------
(* Stage 4, markdown_compactor (src/unnamed/part_000 lines 324-567) *)

MaxFiles == 7

MaxGroups == 4

\* the name of the i-th markdown file of the input directory, in sort order
FileName(i) == <<LowerCase[i], ".", "m", "d">>

\* the sequence of the elements of a set of numbers, ascending
RECURSIVE Ascending(_)
Ascending(numbers) ==
    IF numbers = {} THEN <<>>
    ELSE LET least == CHOOSE n \in numbers : \A k \in numbers : n <= k
         IN  <<least>> \o Ascending(numbers \ {least})

\* what getMarkdownFiles can return (lines 411-421): sorted paths
MarkdownFileLists ==
    {[i \in 1..Len(Ascending(chosen)) |-> FileName(Ascending(chosen)[i])] :
        chosen \in SUBSET (1..MaxFiles)}

\* line 439 putting every item into the first group
GroupIndex_First(index, groupCount) == 0

\* line 439, index counted from 0
GroupIndex(index, groupCount) == index % groupCount

\* lines 438-441: items.forEach from items[i] on
RECURSIVE DistributeLoop(_, _, _, _)
DistributeLoop(items, i, groupCount, groups) ==
    IF i > Len(items) THEN groups
    ELSE DistributeLoop(items, i + 1, groupCount,
                        [groups EXCEPT ![GroupIndex(i - 1, groupCount) + 1] =
                                            Append(@, items[i])])

\* line 430 never taking the one-item-per-group branch
OnePerGroup_Never(items, groupCount) == FALSE

\* line 430
OnePerGroup(items, groupCount) == groupCount >= Len(items)

\* lines 429-444
distributeIntoGroups(items, groupCount) ==
    IF OnePerGroup(items, groupCount)
    THEN [i \in 1..Len(items) |-> <<items[i]>>]
    ELSE DistributeLoop(items, 1, groupCount, [g \in 1..groupCount |-> <<>>])

DistributeInit ==
    /\ HarvestIdle
    /\ MergeIdle
    /\ RunIdle
    /\ f_pc = "markdownFiles"
    /\ f_in \in [items : MarkdownFileLists, groupCount : 1..MaxGroups]
    /\ f_out = <<>>

\* line 516
Distribute ==
    /\ f_pc = "markdownFiles"
    /\ f_out' = distributeIntoGroups(f_in.items, f_in.groupCount)
    /\ f_pc' = "fileGroups"
    /\ UNCHANGED f_in
    /\ UNCHANGED harvestVars
    /\ UNCHANGED mergeVars
    /\ UNCHANGED runVars

DistributeSpec == DistributeInit /\ [][Distribute]_vars

\* line 468: '\n\n---\n\n'
HorizontalRule == <<"\n", "\n", "-", "-", "-", "\n", "\n">>

\* String.prototype.trim
TrimWhitespace(string) ==
    LET headless == Drop(string, PrefixIn(string, Whitespace))
    IN  SubSeq(headless, 1, Len(headless) - PrefixIn(Reverse(headless), Whitespace))

\* line 457: path.basename(filePath, '.md')
Basename(filePath) ==
    LET slashes == {i \in 1..Len(filePath) : filePath[i] = "/"}
        name == IF slashes = {} THEN filePath
                ELSE Drop(filePath, CHOOSE i \in slashes : \A k \in slashes : k <= i)
    IN  IF Len(name) > 3 /\ SubSeq(name, Len(name) - 2, Len(name)) = <<".", "m", "d">>
        THEN SubSeq(name, 1, Len(name) - 3)
        ELSE name

\* line 460: `<!-- Source: ${filename}.md -->`
SourceComment(filename) ==
    <<"<", "!", "-", "-", " ", "S", "o", "u", "r", "c", "e", ":", " ">>
        \o filename \o <<".", "m", "d", " ", "-", "-", ">">>

\* lines 454-465: the loop from filePaths[i] on; a file that readFileSync
\* cannot read is warned about and left out
RECURSIVE CombineLoop(_, _, _)
CombineLoop(filePaths, i, contents) ==
    IF i > Len(filePaths) THEN contents
    ELSE IF ~filePaths[i].readable THEN CombineLoop(filePaths, i + 1, contents)
    ELSE CombineLoop(filePaths, i + 1,
                     contents \o <<SourceComment(Basename(filePaths[i].name)),
                                   TrimWhitespace(filePaths[i].content)>>)

\* lines 451-469
combineMarkdownFiles(filePaths) == Join(CombineLoop(filePaths, 1, <<>>), HorizontalRule)

MaxGroupFiles == 3

\* what the files of a group can hold
FileContents ==
    {<<>>, <<"#", " ", "t">>, <<"\n", "#", " ", "t", "\n", "\n", "x", " ", "\n">>}

\* the files of a group, in sort order, each readable or not
GroupFiles ==
    UNION {{[i \in 1..n |-> [name |-> FileName(i), content |-> file[i].content,
                             readable |-> file[i].readable]] :
               file \in [1..n -> [content : FileContents, readable : BOOLEAN]]} :
           n \in 0..MaxGroupFiles}

CombineInit ==
    /\ HarvestIdle
    /\ MergeIdle
    /\ RunIdle
    /\ f_pc = "group"
    /\ f_in \in GroupFiles
    /\ f_out = <<>>

\* line 534
Combine ==
    /\ f_pc = "group"
    /\ f_out' = combineMarkdownFiles(f_in)
    /\ f_pc' = "combinedContent"
    /\ UNCHANGED f_in
    /\ UNCHANGED harvestVars
    /\ UNCHANGED mergeVars
    /\ UNCHANGED runVars

CombineSpec == CombineInit /\ [][Combine]_vars

----------------------------------------------------------------------------
(* The offline programs as node processes: zulip_cleaner and data_splitter  *)
(* (src/data_splitter.js), markdown_compactor (src/unnamed/part_000).  A    *)
(* path is a string; the disk maps the paths that exist to what they are.   *)
(* A JSON file is held as the object its text denotes.                      *)

Cleaner == "zulip_cleaner.js"

Splitter == "data_splitter.js"

Compactor == "markdown_compactor.js"

Directory == [type |-> "dir", content |-> <<>>, readable |-> TRUE]

File(content, readable) == [type |-> "file", content |-> content, readable |-> readable]

\* path.resolve, the working directory being "/"
pathResolve(path) ==
    LET absolute == IF Len(path) > 0 /\ path[1] = "/" THEN path ELSE <<"/">> \o path
    IN  IF Len(absolute) > 1 /\ absolute[Len(absolute)] = "/"
        THEN SubSeq(absolute, 1, Len(absolute) - 1)
        ELSE absolute

\* path.dirname of an absolute path
pathDirname(path) ==
    LET slashes == {i \in 1..Len(path) : path[i] = "/"}
        last == CHOOSE i \in slashes : \A k \in slashes : k <= i
    IN  IF last = 1 THEN <<"/">> ELSE SubSeq(path, 1, last - 1)

\* path.join of a directory and a name
pathJoin(directory, name) ==
    IF directory = <<"/">> THEN directory \o name ELSE directory \o <<"/">> \o name

\* fs.existsSync
existsSync(d, path) == path \in DOMAIN d

\* fs.mkdirSync(path, { recursive: true })
RECURSIVE mkdirSync(_, _)
mkdirSync(d, path) ==
    IF path \in DOMAIN d THEN d
    ELSE (path :> Directory) @@ mkdirSync(d, pathDirname(path))

Digits == <<"0", "1", "2", "3", "4", "5", "6", "7", "8", "9">>

\* the number a string of digits denotes
RECURSIVE DecimalValue(_)
DecimalValue(digits) ==
    IF Len(digits) = 0 THEN 0
    ELSE 10 * DecimalValue(SubSeq(digits, 1, Len(digits) - 1))
             + (CHOOSE k \in 1..10 : Digits[k] = digits[Len(digits)]) - 1

\* the decimal numeral of a number
RECURSIVE NumberToString(_)
NumberToString(n) ==
    IF n < 10 THEN <<Digits[n + 1]>>
    ELSE NumberToString(n \div 10) \o <<Digits[(n % 10) + 1]>>

\* parseInt(string, 10): leading whitespace is skipped, a sign is taken, and
\* the longest run of digits that follows is the number; what comes after it is
\* ignored.  NaN when there is no digit.
parseInt(string) ==
    LET trimmed == Drop(string, PrefixIn(string, Whitespace))
        signed == Len(trimmed) > 0 /\ trimmed[1] \in {"+", "-"}
        unsigned == IF signed THEN Tail(trimmed) ELSE trimmed
        n == PrefixIn(unsigned, {Digits[k] : k \in 1..10})
    IN  [nan |-> n = 0,
         negative |-> signed /\ trimmed[1] = "-",
         magnitude |-> DecimalValue(SubSeq(unsigned, 1, n))]

\* the number of arguments below which parseArguments exits
RequiredArgs(program) ==
    CASE program = Cleaner -> 2
      [] program = Splitter -> 1
      [] program = Compactor -> 3

\* parseArguments of the three programs: data_splitter.js lines 22-36 and
\* 336-350, part_000 lines 375-404
parseArguments(program, argv) ==
    IF Len(argv) < RequiredArgs(program)
    THEN [ok |-> FALSE, error |-> "Missing required arguments"]
    ELSE CASE program = Cleaner ->
                [ok |-> TRUE, inputFile |-> pathResolve(argv[1]),
                 outputFile |-> pathResolve(argv[2])]
           [] program = Splitter ->
                [ok |-> TRUE, inputFile |-> pathResolve(argv[1]),
                 outputDir |-> IF Len(argv) >= 2 /\ Len(argv[2]) > 0
                               THEN pathResolve(argv[2])
                               ELSE pathDirname(pathResolve(argv[1]))]
           [] program = Compactor ->
                LET groupCount == parseInt(argv[3])
                IN  IF groupCount.nan \/ groupCount.negative \/ groupCount.magnitude < 1
                    THEN [ok |-> FALSE, error |-> "N must be a positive integer"]
                    ELSE [ok |-> TRUE, inputDir |-> pathResolve(argv[1]),
                          outputDir |-> pathResolve(argv[2]),
                          groupCount |-> groupCount.magnitude]

\* the state a main function works on: the disk, the writeFileSync calls, the
\* console.error calls, and whether an exception is on its way to the catch
Working(d) == [disk |-> d, writes |-> <<>>, errors |-> <<>>, threw |-> FALSE]

\* fs.writeFileSync(path, content, 'utf8'); fails says whether it throws
writeFileSync(acc, path, content, fails) ==
    IF fails
    THEN [acc EXCEPT !.writes = Append(@, [path |-> path, content |-> content,
                                           ok |-> FALSE]),
                     !.threw = TRUE]
    ELSE [acc EXCEPT !.disk = (path :> File(content, TRUE)) @@ @,
                     !.writes = Append(@, [path |-> path, content |-> content,
                                           ok |-> TRUE])]

\* the catch of a main function: console.error and process.exit(1); code 0
\* when the function returns
Finish(acc, message) ==
    IF acc.threw
    THEN [disk |-> acc.disk, writes |-> acc.writes,
          errors |-> Append(acc.errors, message), exit |-> 1]
    ELSE [disk |-> acc.disk, writes |-> acc.writes, errors |-> acc.errors, exit |-> 0]

\* lines 86-90 (412-414, part_000 500-503)
EnsureDirectory(d, directory) ==
    IF existsSync(d, directory) THEN d ELSE mkdirSync(d, directory)

\* data_splitter.js lines 401-446
cleanZulipData(inputFile, outputFile, d, fails) ==
    IF ~existsSync(d, inputFile)
    THEN Finish([Working(d) EXCEPT !.threw = TRUE], "Error cleaning Zulip data")
    ELSE LET made == EnsureDirectory(d, pathDirname(outputFile))
             zulipData == d[inputFile].content
             cleanedData == CleanTopics(zulipData, 1, <<>>)
         IN  Finish(writeFileSync(Working(made), outputFile, cleanedData, fails),
                    "Error cleaning Zulip data")

\* line 64 with the sanitized header in the heading
MarkdownContent_Sanitized(header, content) ==
    <<"#", " ">> \o sanitizeFilename(header) \o BlankLine \o content

\* line 64: `# ${header}\n\n${content}`
MarkdownContent(header, content) == <<"#", " ">> \o header \o BlankLine \o content

\* lines 69-71 letting the exception of writeFileSync through
CatchWriteError_Rethrow(acc) == acc

\* lines 69-71: the exception of writeFileSync ends here, in a console.error
CatchWriteError(acc) ==
    IF acc.threw
    THEN [acc EXCEPT !.threw = FALSE, !.errors = Append(@, "Error creating")]
    ELSE acc

\* lines 59-72
createMarkdownFile(acc, header, content, outputDir, fails) ==
    LET sanitizedHeader == sanitizeFilename(header)
        filename == sanitizedHeader \o <<".", "m", "d">>
        filepath == pathJoin(outputDir, filename)
        markdownContent == MarkdownContent(header, content)
    IN  CatchWriteError(writeFileSync(acc, filepath, markdownContent, fails))

\* lines 100-104: the loop over Object.entries(data) from entry i on
RECURSIVE SplitLoop(_, _, _, _, _)
SplitLoop(data, i, outputDir, failing, acc) ==
    IF i > Len(data) \/ acc.threw THEN acc
    ELSE SplitLoop(data, i + 1, outputDir, failing,
                   createMarkdownFile(acc, data[i].key, data[i].value, outputDir,
                                      i \in failing))

\* lines 77-115; failing holds the entries whose writeFileSync throws
splitData(inputFile, outputDir, d, failing) ==
    IF ~existsSync(d, inputFile)
    THEN Finish([Working(d) EXCEPT !.threw = TRUE], "Error splitting data")
    ELSE LET made == EnsureDirectory(d, outputDir)
             data == d[inputFile].content
         IN  Finish(SplitLoop(data, 1, outputDir, failing, Working(made)),
                    "Error splitting data")

\* part_000 lines 411-421: the names of the directory that end in .md, joined
\* to it and sorted
getMarkdownFiles(d, directory) ==
    LET found == {k \in 1..MaxFiles : pathJoin(directory, FileName(k)) \in DOMAIN d}
    IN  [i \in 1..Cardinality(found) |->
            pathJoin(directory, FileName(Ascending(found)[i]))]

\* part_000 lines 478-481
createGroupFilename(groupIndex, totalGroups, fileCount) ==
    <<"g", "r", "o", "u", "p", "_">> \o NumberToString(groupIndex + 1)
        \o <<"_", "o", "f", "_">> \o NumberToString(totalGroups) \o <<"_">>
        \o NumberToString(fileCount) \o <<"_", "f", "i", "l", "e", "s", ".", "m", "d">>

\* part_000 lines 524-539: the loop over fileGroups from group i on
RECURSIVE CompactLoop(_, _, _, _, _)
CompactLoop(fileGroups, i, outputDir, failing, acc) ==
    IF i > Len(fileGroups) \/ acc.threw THEN acc
    ELSE LET group == fileGroups[i]
             groupFilename == createGroupFilename(i - 1, Len(fileGroups), Len(group))
             outputPath == pathJoin(outputDir, groupFilename)
             combinedContent ==
                 combineMarkdownFiles(
                     [k \in 1..Len(group) |->
                         [name |-> group[k], content |-> acc.disk[group[k]].content,
                          readable |-> acc.disk[group[k]].readable]])
         IN  CompactLoop(fileGroups, i + 1, outputDir, failing,
                         IF Len(group) = 0 THEN acc
                         ELSE writeFileSync(acc, outputPath, combinedContent,
                                            i \in failing))

\* part_000 lines 486-553
compactMarkdownFiles(inputDir, outputDir, groupCount, d, failing) ==
    IF ~existsSync(d, inputDir)
    THEN Finish([Working(d) EXCEPT !.threw = TRUE], "Error compacting markdown files")
    ELSE LET made == EnsureDirectory(d, outputDir)
             markdownFiles == getMarkdownFiles(made, inputDir)
         IN  IF Len(markdownFiles) = 0 THEN Finish(Working(made), "")
             ELSE Finish(CompactLoop(distributeIntoGroups(markdownFiles, groupCount),
                                     1, outputDir, failing, Working(made)),
                         "Error compacting markdown files")

MaxEntries == 2

\* the paths given on the command line: "i/z", "o/c", "i" and "o"
InputFileArg == <<"i", "/", "z">>

OutputFileArg == <<"o", "/", "c">>

InputDirArg == <<"i">>

OutputDirArg == <<"o">>

\* the third argument of markdown_compactor: "2", "0", "-1", "x", "2.5", "2x"
GroupCountArgs ==
    {<<"2">>, <<"0">>, <<"-", "1">>, <<"x">>, <<"2", ".", "5">>, <<"2", "x">>}

\* process.argv.slice(2)
ArgLists(program) ==
    CASE program = Cleaner ->
            {<<>>, <<InputFileArg>>, <<InputFileArg, OutputFileArg>>}
      [] program = Splitter ->
            {<<>>, <<InputFileArg>>, <<InputFileArg, OutputDirArg>>}
      [] program = Compactor ->
            {<<>>, <<InputDirArg>>, <<InputDirArg, OutputDirArg>>}
            \cup {<<InputDirArg, OutputDirArg, n>> : n \in GroupCountArgs}

\* the example of the README: alice twice, then bob
ExampleMessages ==
    <<[sender |-> <<"a">>, content |-> <<"x">>],
      [sender |-> <<"a">>, content |-> <<"y">>],
      [sender |-> <<"b">>, content |-> <<"z">>]>>

\* what the input file of zulip_cleaner can hold
RawDatas == {<<>>, <<[key |-> <<"t">>, value |-> ExampleMessages]>>}

\* what the input file of data_splitter can hold: up to MaxEntries topics
\* with their markdown, as zulip_cleaner writes them
CleanedDatas ==
    {data \in SeqsUpTo([key : {<<"t">>, <<"A", " ", "b">>, <<"a", "_", "b">>, <<"*">>},
                        value : {<<>>, messagesToMarkdown(ExampleMessages)}],
                       MaxEntries) :
        \A i, j \in 1..Len(data) : data[i].key = data[j].key => i = j}

\* what the input directory of markdown_compactor can hold: the first n
\* markdown files, the first of them readable or not
MarkdownDirs ==
    {[k \in 1..n |-> File(<<"#", " ", LowerCase[k], "\n">>, k > 1 \/ first)] :
        n \in 0..MaxGroupFiles, first \in BOOLEAN}

RootOnly == (<<"/">> :> Directory)

\* the disk with the input of the program, and without it
InputDisks(program) ==
    LET inputDir == (pathResolve(InputDirArg) :> Directory) @@ RootOnly
        inputFile == pathResolve(InputFileArg)
    IN  {RootOnly} \cup
        CASE program = Cleaner ->
                {(inputFile :> File(data, TRUE)) @@ inputDir : data \in RawDatas}
          [] program = Splitter ->
                {(inputFile :> File(data, TRUE)) @@ inputDir : data \in CleanedDatas}
          [] program = Compactor ->
                {[path \in {pathJoin(pathResolve(InputDirArg), FileName(k)) :
                               k \in 1..Len(files)} |->
                     files[CHOOSE k \in 1..Len(files) :
                              path = pathJoin(pathResolve(InputDirArg), FileName(k))]]
                 @@ inputDir : files \in MarkdownDirs}

\* the disk when the program starts: the output directory exists or not
Disks(program) ==
    UNION {{d, (pathResolve(OutputDirArg) :> Directory) @@ d} :
              d \in InputDisks(program)}

RunInit ==
    /\ HarvestIdle
    /\ MergeIdle
    /\ f_pc = "off"
    /\ f_in = <<>>
    /\ f_out = <<>>
    /\ script \in {Cleaner, Splitter, Compactor}
    /\ args \in ArgLists(script)
    /\ disk \in Disks(script)
    /\ proc = [pc |-> "start", params |-> <<>>, exit |-> Null]
    /\ writes = <<>>
    /\ errors = <<>>

\* `if (require.main === module)`: parseArguments is called
ParseArguments ==
    /\ proc.pc = "start"
    /\ LET parsed == parseArguments(script, args)
       IN  IF parsed.ok
           THEN /\ proc' = [pc |-> "main", params |-> parsed, exit |-> Null]
                /\ errors' = errors
           ELSE /\ proc' = [pc |-> "exited", params |-> <<>>, exit |-> 1]
                /\ errors' = Append(errors, parsed.error)
    /\ UNCHANGED <<script, args, disk, writes>>
    /\ UNCHANGED <<harvestVars, mergeVars, functionVars>>

\* the main function has run to its end or to its process.exit(1)
Exited(done) ==
    /\ disk' = done.disk
    /\ writes' = done.writes
    /\ errors' = errors \o done.errors
    /\ proc' = [proc EXCEPT !.pc = "exited", !.exit = done.exit]
    /\ UNCHANGED <<script, args>>
    /\ UNCHANGED <<harvestVars, mergeVars, functionVars>>

CleanZulipData ==
    /\ proc.pc = "main"
    /\ script = Cleaner
    /\ \E fails \in BOOLEAN :
          Exited(cleanZulipData(proc.params.inputFile, proc.params.outputFile,
                                disk, fails))

SplitData ==
    /\ proc.pc = "main"
    /\ script = Splitter
    /\ \E failing \in SUBSET (1..MaxEntries) :
          Exited(splitData(proc.params.inputFile, proc.params.outputDir, disk, failing))

CompactMarkdownFiles ==
    /\ proc.pc = "main"
    /\ script = Compactor
    /\ \E failing \in SUBSET (1..MaxEntries) :
          Exited(compactMarkdownFiles(proc.params.inputDir, proc.params.outputDir,
                                      proc.params.groupCount, disk, failing))

RunNext == ParseArguments \/ CleanZulipData \/ SplitData \/ CompactMarkdownFiles

RunSpec == RunInit /\ [][RunNext]_vars

----------------------------------------------------------------------------
(* The content normaliser on element trees, part_000 lines 89-157 *)
(*                                                                          *)
(* A node is a record: an element with its tag, className, the value of     *)
(* getAttribute('data-code-language') and its child nodes, or a text node.  *)
(* className is a sequence of strings read in a row; an attribute is <<>>   *)
(* when absent (getAttribute gives null) and <<value>> when present.        *)
(* Strings are sequences of one-character strings.  A node inside a tree is *)
(* named by its path, the child indexes from the root down.  memory holds   *)
(* the trees that exist, by name; an element reference is such a name.      *)

MaxNodes == 2

Element(tag, className, language, childNodes) ==
    [tag |-> tag, className |-> className, language |-> language, text |-> <<>>,
     childNodes |-> childNodes]

TextNode(text) ==
    [tag |-> "#text", className |-> <<>>, language |-> <<>>, text |-> text,
     childNodes |-> <<>>]

RECURSIVE NodeAt(_, _)
NodeAt(node, path) ==
    IF path = <<>> THEN node ELSE NodeAt(node.childNodes[path[1]], Tail(path))

\* the paths of the descendants of node from its child i on, in document order
RECURSIVE Descendants(_, _)
Descendants(node, i) ==
    IF i > Len(node.childNodes) THEN <<>>
    ELSE LET below == Descendants(node.childNodes[i], 1)
         IN  <<<<i>>>> \o [k \in 1..Len(below) |-> <<i>> \o below[k]]
                 \o Descendants(node, i + 1)

\* the three selectors of lines 95, 102 and 141
Matches(node, selector) ==
    CASE selector = "pre" -> node.tag = "pre"
      [] selector = "code" -> node.tag = "code"
      [] selector = "div.codehilite.zulip-code-block" ->
            /\ node.tag = "div"
            /\ \E i, j \in 1..Len(node.className) :
                  node.className[i] = "codehilite" /\ node.className[j] = "zulip-code-block"

\* Element.querySelectorAll: a static list, here of paths below node;
\* querySelector gives its first element or null
querySelectorAll(node, selector) ==
    LET all == Descendants(node, 1)
        RECURSIVE Select(_)
        Select(k) ==
            IF k > Len(all) THEN <<>>
            ELSE IF Matches(NodeAt(node, all[k]), selector)
            THEN <<all[k]>> \o Select(k + 1)
            ELSE Select(k + 1)
    IN  Select(1)

\* Node.textContent: the text of the text nodes below, in document order
RECURSIVE textContent(_)
textContent(node) ==
    IF node.tag = "#text" THEN node.text
    ELSE LET RECURSIVE From(_)
             From(i) == IF i > Len(node.childNodes) THEN <<>>
                        ELSE textContent(node.childNodes[i]) \o From(i + 1)
         IN  From(1)

\* lines 116-118 with the attribute value taken as it is
LanguageClass_AsIs(language) ==
    IF language # <<>> /\ language[1] # <<>>
    THEN <<"language-">> \o language[1]
    ELSE <<>>

\* lines 116-118: className of the new code element
LanguageClass(language) ==
    IF language # <<>> /\ language[1] # <<>>
    THEN <<"language-">> \o TrimWhitespace(toLowerCase(language[1]))
    ELSE <<>>

\* lines 89-123: <<>> for null, else <<the new pre element>>
transformSingleZulipCodeBlockToElement(zulipBlockElement) ==
    LET language == zulipBlockElement.language
        pres == querySelectorAll(zulipBlockElement, "pre")
    IN  IF pres = <<>> THEN <<>>
        ELSE LET preTag == NodeAt(zulipBlockElement, pres[1])
                 codes == querySelectorAll(preTag, "code")
             IN  IF codes = <<>> THEN <<>>
                 ELSE LET rawCode == textContent(NodeAt(preTag, codes[1]))
                          newCodeElement ==
                              Element("code", LanguageClass(language), <<>>,
                                      IF rawCode = <<>> THEN <<>>
                                      ELSE <<TextNode(rawCode)>>)
                      IN  <<Element("pre", <<>>, <<>>, <<newCodeElement>>)>>

\* blockInClone.parentNode.replaceChild(newChild, blockInClone), in the tree
\* node, for the block at path
RECURSIVE replaceChild(_, _, _)
replaceChild(node, path, newChild) ==
    IF path = <<>> THEN newChild
    ELSE [node EXCEPT !.childNodes[path[1]] = replaceChild(@, Tail(path), newChild)]

\* line 137 handing out the element itself
cloneNode_Alias(memory, element) == [memory |-> memory, element |-> element]

\* line 137: cloneNode(true) makes a tree of its own
cloneNode(memory, element) ==
    [memory |-> [name \in DOMAIN memory \cup {"clone"} |->
                    IF name = "clone" THEN memory[element] ELSE memory[name]],
     element |-> "clone"]

\* lines 143-154: forEach over the blocks found at line 141, from the k-th on
RECURSIVE TransformBlocks(_, _, _, _)
TransformBlocks(memory, element, blocks, k) ==
    IF k > Len(blocks) THEN memory
    ELSE LET blockInClone == NodeAt(memory[element], blocks[k])
             newStandardCodeElement == transformSingleZulipCodeBlockToElement(blockInClone)
         IN  TransformBlocks(
                 IF newStandardCodeElement # <<>>
                 THEN [memory EXCEPT ![element] =
                          replaceChild(@, blocks[k], newStandardCodeElement[1])]
                 ELSE memory,
                 element, blocks, k + 1)

\* Element.innerHTML: the markup of the child nodes, kept as their trees
innerHTML(node) == node.childNodes

\* lines 132-157 on the trees of memory: the trees afterwards and the result
PreprocessedMessageHtml(memory, originalMessageElement) ==
    IF originalMessageElement = Null
    THEN [memory |-> memory, html |-> <<>>]
    ELSE LET cloned == cloneNode(memory, originalMessageElement)
             zulipCodeBlocksInClone ==
                 querySelectorAll(cloned.memory[cloned.element],
                                  "div.codehilite.zulip-code-block")
             after == TransformBlocks(cloned.memory, cloned.element,
                                      zulipCodeBlocksInClone, 1)
         IN  [memory |-> after, html |-> innerHTML(after[cloned.element])]

\* what Zulip renders a code block as, and what is left of it when parts are
\* missing: the wrapper alone, a pre without code, the pre with the code as
\* plain text, the pre with highlighted code
CodeBlockBodies ==
    {<<>>,
     <<Element("pre", <<>>, <<>>, <<Element("span", <<>>, <<>>, <<>>)>>)>>,
     <<Element("pre", <<>>, <<>>,
               <<Element("span", <<>>, <<>>, <<>>),
                 Element("code", <<>>, <<>>, <<TextNode(<<"x", "\n">>)>>)>>)>>,
     <<Element("pre", <<>>, <<>>,
               <<Element("code", <<>>, <<>>,
                         <<Element("span", <<"k">>, <<>>, <<TextNode(<<"I", "f">>)>>),
                           TextNode(<<" ", "<">>)>>)>>)>>}

CodeLanguages == {<<>>, <<<<>>>>, <<<<"P", "y">>>>, <<<<" ", "J", "S", " ">>>>}

CodeBlocks ==
    {Element("div", <<"codehilite", " ", "zulip-code-block">>, language, body) :
        language \in CodeLanguages, body \in CodeBlockBodies}

\* the children of a .message_content element: a paragraph, a code block, a
\* quotation with a code block in it
MessageNodes ==
    {Element("p", <<>>, <<>>, <<TextNode(<<"x">>)>>)}
    \cup CodeBlocks
    \cup {Element("blockquote", <<>>, <<>>, <<block>>) :
             block \in {b \in CodeBlocks : b.language = <<<<"P", "y">>>>}}

MessageContents ==
    {Element("div", <<"message_content">>, <<>>, childNodes) :
        childNodes \in SeqsUpTo(MessageNodes, MaxNodes)}

\* line 275: message_row.querySelector(".message_content") is an element of
\* the page or null
NormalizeInit ==
    /\ f_pc = "originalMessageElement"
    /\ \E content \in MessageContents, element \in {Null, "original"} :
          f_in = [memory |-> [name \in {"original"} |-> content], element |-> element]
    /\ f_out = <<>>
    /\ HarvestIdle
    /\ MergeIdle
    /\ RunIdle

Normalize ==
    /\ f_pc = "originalMessageElement"
    /\ f_pc' = "html"
    /\ f_out' = PreprocessedMessageHtml(f_in.memory, f_in.element)
    /\ UNCHANGED f_in
    /\ UNCHANGED harvestVars
    /\ UNCHANGED mergeVars
    /\ UNCHANGED runVars

NormalizeSpec == NormalizeInit /\ [][Normalize]_vars









----------------------------------------------------------------------------
(* Properties *)

\* resultByTopic[topic]
resultByTopic(topic) == TopicList(overall_stuff, topic)

\* seenRowIds
seenRowIds == processed_rows

IsPrefix(s, t) == Len(s) <= Len(t) /\ \A i \in 1..Len(s) : s[i] = t[i]

Ops(log) == {log[i].op : i \in 1..Len(log)}

\* the ids of the rows of the log on which op was done
Touched(log, op) == {log[i].id : i \in {k \in 1..Len(log) : log[k].op = op}}

\* a step that is one run of processRows
PassStep == pc = "EXTRACTING" /\ pc' # "EXTRACTING"

\* C1: in every state of a session no topic's list holds two records with
\* the same sender and the same content.
C1_NoDuplicateRecords ==
    \A topic \in DOMAIN overall_stuff : NoRepeat(overall_stuff[topic])

\* C1 witness: a pass met a record that was already stored and a list with
\* two records exists.
C1_Witness ==
    /\ "duplicate" \in Ops(pass.log)
    /\ \E topic \in DOMAIN overall_stuff : Len(overall_stuff[topic]) = 2

\* the senders line 273 gives the fragments of a row when the loop runs to
\* its end
RECURSIVE SendersFrom(_, _, _)
SendersFrom(message_rows, i, previous_sender) ==
    IF i > Len(message_rows) THEN <<>>
    ELSE LET cur_sender == CurSender(message_rows[i].sender, previous_sender)
         IN  <<cur_sender>> \o SendersFrom(message_rows, i + 1, cur_sender)

\* the ordered records of a row
RowRecords(message_rows) ==
    LET senders == SendersFrom(message_rows, 1, Undefined)
    IN  [i \in 1..Len(message_rows) |->
            [sender |-> senders[i],
             content |-> turndown(getPreprocessedMessageHtml(message_rows[i].html))]]

\* each record on its own, in order: appended exactly when the list holds no
\* record equal to it
RECURSIVE EachOnItsOwn(_, _, _)
EachOnItsOwn(list, records, i) ==
    IF i > Len(records) THEN list
    ELSE EachOnItsOwn(IF \E k \in 1..Len(list) : list[k] = records[i]
                      THEN list ELSE Append(list, records[i]),
                      records, i + 1)

\* C2: merging a row's records handles each record on its own: a duplicate
\* drops only itself and the records after it are still appended when new.
C2_EachRecordOnItsOwn ==
    m_pc # "in" =>
        TopicList(m_once.stuff, m_topic)
            = EachOnItsOwn(TopicList(m_stuff, m_topic), RowRecords(m_frags), 1)

\* C3: merging the same row a second time leaves overall_stuff as the first
\* merge left it.
C3_MergeIdempotent == m_pc = "twice" => m_twice.stuff = m_once.stuff

\* C3 witness: the first merge stored two records or more and met a
\* duplicate, and the second merge has run.
C3_Witness ==
    /\ m_pc = "twice"
    /\ Len(TopicList(m_once.stuff, m_topic)) >= Len(TopicList(m_stuff, m_topic)) + 2
    /\ m_once.warned

\* C4: every topic's list in a state is a prefix of its list in the next
\* state, and no topic disappears.
C4_AppendOnly ==
    [][\A topic \in DOMAIN overall_stuff :
          /\ topic \in DOMAIN overall_stuff'
          /\ IsPrefix(overall_stuff[topic], overall_stuff'[topic])]_vars

\* C4 witness: a later pass merged a row into a topic that already held
\* records, and the list holds two.
C4_Witness ==
    /\ processed_rows # {}
    /\ pass.exit = "last row unchanged"
    /\ Ops(pass.log) \cap {"messages", "duplicate"} # {}
    /\ \E topic \in DOMAIN overall_stuff : Len(overall_stuff[topic]) = 2

\* C5: the sender given to a fragment is the label of the nearest labelled
\* fragment at or before it in the row, and "Unknown Sender" when there is
\* none.
C5_SenderIsNearestLabel ==
    m_pc # "in" =>
        \A i \in 1..Len(m_once.senders) :
            m_once.senders[i] = NearestLabelSender(m_frags, i)

\* C6: the set of processed row ids of a state is a subset of that of the
\* next state.
C6_SeenOnlyGrows == [][seenRowIds \subseteq seenRowIds']_vars

\* C6 witness: two passes went on and added ids.
C6_Witness ==
    /\ pc = "TERMINATED"
    /\ {"r1", "r2"} \subseteq seenRowIds
    /\ pass.exit = "no new rows"

\* C7: a pass does nothing on a row whose id was in seenRowIds when the pass
\* began: no expand, no read of topic or messages, no merge.
C7_SeenRowNotExtracted ==
    [][PassStep => \A i \in 1..Len(pass'.log) : pass'.log[i].id \notin seenRowIds]_vars

\* C7 witness: a pass read a snapshot that held a row seen before next to a
\* new row, and extracted the new one.
C7_Witness ==
    /\ pass.exit = "last row unchanged"
    /\ \E id \in pass.ids \cap seenRowIds : id # NoId
    /\ pass.log # <<>>

\* C8: when a pass reads the same set of row ids as the pass before it, the
\* driver is TERMINATED at the end of that pass, without a sentinel trigger,
\* and TERMINATED is never left.
C8_SameIdsTerminate ==
    [][/\ (PassStep /\ pass.exit = "more" /\ pass'.ids = pass.ids)
            => (pc' = "TERMINATED" /\ ~pass'.sentinel)
       /\ pc = "TERMINATED" => pc' = "TERMINATED"]_vars

\* C8 witness: the second of two passes over the rows r1 and r2 has ended.
C8_Witness ==
    /\ pc = "TERMINATED"
    /\ pass.exit = "no new rows"
    /\ pass.ids = {"r1", "r2"}
    /\ seenRowIds = {"r1", "r2"}
    /\ saved # <<>>

\* C9: a session that has started with its sentinel resolved reaches
\* TERMINATED.
C9_EventuallyTerminated ==
    (pc = "EXTRACTING" /\ bookend # Null) ~> (pc = "TERMINATED")

\* C10: at TERMINATED every (sender, content) of every row that had an id and
\* a topic, as rendered when first read, is in resultByTopic[topic].
C10_Complete ==
    pc = "TERMINATED" =>
        \A triple \in owed :
            \E i \in 1..Len(resultByTopic(triple.topic)) :
                /\ resultByTopic(triple.topic)[i].sender = triple.sender
                /\ resultByTopic(triple.topic)[i].content = triple.content

\* the ids of the rows a pass began to extract and merged nothing of
NoLabelRows(log) ==
    Touched(log, "expand") \ (Touched(log, "messages") \cup Touched(log, "duplicate"))

\* C11: the object is handed to saveObjectAsJsonFile only in TERMINATED and
\* only once, as it then is; in TERMINATED the driver stays there and
\* resultByTopic, seenRowIds and lastTerminalRowId do not change; and every
\* session that is TERMINATED hands the object over.
C11_ExportAfterTerminated ==
    /\ [][/\ saved' # saved =>
                (pc = "TERMINATED" /\ saved = <<>> /\ saved' = <<overall_stuff>>)
          /\ pc = "TERMINATED" =>
                /\ pc' = "TERMINATED"
                /\ overall_stuff' = overall_stuff
                /\ processed_rows' = processed_rows
                /\ prev_last_row_id' = prev_last_row_id]_vars
    /\ (pc = "TERMINATED") ~> (Len(saved) = 1)

\* C11 witness: a session that stored two records under a topic ended by the
\* last-row check and has handed the object over.
C11_Witness ==
    /\ pc = "TERMINATED"
    /\ pass.exit = "last row unchanged"
    /\ saved = <<overall_stuff>>
    /\ \E topic \in DOMAIN overall_stuff : Len(overall_stuff[topic]) = 2

\* C12: a pass that meets a new row without a topic label does not abort:
\* every new row of the snapshot is still visited, the pass goes on to its
\* last-row check, and when the session continues the row's id is in
\* seenRowIds.
C12_NoTopicRowSkipped ==
    [][(PassStep /\ NoLabelRows(pass'.log) # {}) =>
          /\ pass'.exit # "threw"
          /\ (pass'.ids \ (seenRowIds \cup {NoId})) \subseteq Touched(pass'.log, "expand")
          /\ pc' = "AWAITING_MORE" => NoLabelRows(pass'.log) \subseteq seenRowIds']_vars

\* C13: a session whose sentinel lookup gave null is aborted without a pass:
\* no snapshot was read, nothing was merged or marked processed.
C13_AbortsInPrimed ==
    (pc # "PRIMED" /\ bookend = Null) =>
        /\ pc = "ABORTED"
        /\ pass.exit = "none"
        /\ overall_stuff = EmptyObject
        /\ processed_rows = {}
        /\ prev_last_row_id = InitialPrevLastRowId

\* the positions of messages at which a maximal run of one sender begins
RunStarts(messages) ==
    {i \in 1..Len(messages) : i = 1 \/ messages[i].sender # messages[i - 1].sender}

\* the position at which the run that begins at i ends
RunEnd(messages, i) ==
    CHOOSE j \in i..Len(messages) :
        /\ \A k \in i..j : messages[k].sender = messages[i].sender
        /\ j = Len(messages) \/ messages[j + 1].sender # messages[i].sender

\* the block of the run that begins at i
RunBlock(messages, i) ==
    <<"*", "*">> \o messages[i].sender \o <<":", "*", "*", " ">>
        \o Join([k \in 1..(RunEnd(messages, i) - i + 1) |->
                    messages[i + k - 1].content], BlankLine)

\* the blocks of the maximal runs, in order, joined by a blank line
RunsMarkdown(messages) ==
    LET starts == RunStarts(messages)
        nth(n) == CHOOSE i \in starts : Cardinality({j \in starts : j <= i}) = n
    IN  Join([n \in 1..Cardinality(starts) |-> RunBlock(messages, nth(n))],
             BlankLine)

\* C14: the cleaned object has exactly the topic keys of the input, and the
\* value of every topic is the blocks of the maximal same-sender runs of its
\* records, in order, joined by a blank line (the empty string for no record).
C14_CleanedAsRuns ==
    f_pc = "cleanedData" =>
        /\ KeySet(f_out) = KeySet(f_in)
        /\ \A i \in 1..Len(f_in) :
              \E j \in 1..Len(f_out) :
                  /\ f_out[j].key = f_in[i].key
                  /\ f_out[j].value = RunsMarkdown(f_in[i].value)

\* how many positions of string hold a character of class
CountIn(string, class) == Cardinality({i \in 1..Len(string) : string[i] \in class})

\* the positions of string at which a maximal run of characters of class begins
RunsOf(string, class) ==
    {i \in 1..Len(string) :
        string[i] \in class /\ (i = 1 \/ string[i - 1] \notin class)}

\* the token is safe: none of < > : " / \ | ? *, no whitespace, no upper-case
\* letter, no underscore at either end, no two underscores in a row
SafeToken(token) ==
    /\ \A i \in 1..Len(token) :
          /\ token[i] \notin InvalidChars
          /\ token[i] \notin Whitespace
          /\ \A k \in 1..Len(UpperCase) : token[i] # UpperCase[k]
    /\ Len(token) > 0 => (token[1] # "_" /\ token[Len(token)] # "_")
    /\ \A i \in 1..(Len(token) - 1) : ~(token[i] = "_" /\ token[i + 1] = "_")

\* C16: the token sanitizeFilename returns is safe, and it holds an
\* underscore for each invalid character and for each whitespace run of the
\* input.
C16_EachReplacedByUnderscore ==
    f_pc = "sanitizedHeader" =>
        /\ SafeToken(f_out)
        /\ CountIn(f_out, {"_"})
              >= CountIn(f_in, InvalidChars) + Cardinality(RunsOf(f_in, Whitespace))

\* the characters that sanitizeFilename turns into underscores, or that are
\* underscores
Separators == InvalidChars \cup Whitespace \cup {"_"}

\* the maximal runs of characters of string that are no separators, in order
Words(string) ==
    LET kept == {i \in 1..Len(string) : string[i] \notin Separators}
        starts == {i \in kept : i = 1 \/ (i - 1) \notin kept}
        nth(n) == CHOOSE i \in starts : Cardinality({j \in starts : j <= i}) = n
        end(i) == CHOOSE j \in i..Len(string) :
                      /\ \A k \in i..j : k \in kept
                      /\ j = Len(string) \/ (j + 1) \notin kept
    IN  [n \in 1..Cardinality(starts) |-> SubSeq(string, nth(n), end(nth(n)))]

\* C16 as amended: the token is safe, and it is the maximal runs of the
\* input's other characters, lower-cased and in order, joined by one
\* underscore: a run of invalid characters, whitespace and underscores between
\* two such runs gives one underscore, a run at either end gives none.
C16_SafeToken ==
    f_pc = "sanitizedHeader" =>
        /\ SafeToken(f_out)
        /\ f_out = toLowerCase(Join(Words(f_in), <<"_">>))

\* C16 witness: an input such as "<A b" gave "a_b": the invalid character
\* at the beginning left no underscore, the whitespace between the letters
\* left one, and the upper-case letter was lowered.
C16_Witness ==
    /\ f_pc = "sanitizedHeader"
    /\ Len(f_in) = 4
    /\ f_in[1] \in InvalidChars
    /\ f_in[2] = "A"
    /\ f_in[3] \in Whitespace
    /\ f_in[4] = "b"
    /\ f_out = <<"a", "_", "b">>

\* how often item occurs in the groups
Occurrences(groups, item) ==
    Cardinality({<<g, k>> \in (1..Len(groups)) \X (1..MaxFiles + 1) :
                    k <= Len(groups[g]) /\ groups[g][k] = item})

\* C17: for a group count N smaller than the number of files there are
\* exactly N groups; the file at index i (from 0) is in group i mod N, and
\* group g holds the files at g, g + N, g + 2N, ... in input order; the sizes
\* of two groups differ by at most one (7 files and N = 3 give 3, 2, 2); and
\* every file occurs once in the groups.
C17_RoundRobin ==
    (f_pc = "fileGroups" /\ f_in.groupCount < Len(f_in.items)) =>
        LET items == f_in.items
            N == f_in.groupCount
        IN  /\ Len(f_out) = N
            /\ \A i \in 0..(Len(items) - 1) :
                  \E k \in 1..Len(f_out[(i % N) + 1]) :
                      f_out[(i % N) + 1][k] = items[i + 1]
            /\ \A g \in 1..N :
                  \A k \in 1..Len(f_out[g]) : f_out[g][k] = items[g + (k - 1) * N]
            /\ \A g, h \in 1..N : Len(f_out[g]) <= Len(f_out[h]) + 1
            /\ (Len(items) = 7 /\ N = 3) =>
                  <<Len(f_out[1]), Len(f_out[2]), Len(f_out[3])>> = <<3, 2, 2>>
            /\ \A i \in 1..Len(items) : Occurrences(f_out, items[i]) = 1

\* C17 witness: seven files were distributed into three groups of 3, 2 and 2.
C17_Witness ==
    /\ f_pc = "fileGroups"
    /\ Len(f_in.items) = 7
    /\ f_in.groupCount = 3
    /\ Len(f_out) = 3
    /\ Len(f_out[1]) = 3
    /\ Len(f_out[2]) = 2
    /\ Len(f_out[3]) = 2

\* the files of a group that can be read, in group order
Readable(files) ==
    LET kept == {i \in 1..Len(files) : files[i].readable}
    IN  [n \in 1..Cardinality(kept) |-> files[Ascending(kept)[n]]]

\* what may stand between a source comment and the content it announces
Gaps == {<<>>, <<"\n">>, BlankLine}

\* C18: the group file is the blocks of its readable files in group order,
\* each block the source comment followed by the trimmed content, with the
\* horizontal rule between consecutive blocks and nowhere else.
C18_RuleOnlyBetweenBlocks ==
    f_pc = "combinedContent" =>
        LET files == Readable(f_in)
        IN  \E gap \in Gaps :
                f_out = Join([n \in 1..Len(files) |->
                                 SourceComment(Basename(files[n].name)) \o gap
                                     \o TrimWhitespace(files[n].content)],
                             HorizontalRule)

\* the file data_splitter writes for entry i of data: its path and content
EntryPath(data, i, outputDir) ==
    pathJoin(outputDir, sanitizeFilename(data[i].key) \o <<".", "m", "d">>)

EntryContent(data, i) == <<"#", " ">> \o data[i].key \o BlankLine \o data[i].value

\* the successful write for entry i was not followed by one to the same path
LastWriteTo(i) ==
    writes[i].ok /\ \A j \in (i + 1)..Len(writes) :
                        ~(writes[j].ok /\ writes[j].path = writes[i].path)

\* "# t\n\n**a:** x\n\ny\n\n**b:** z"
ExampleFile ==
    <<"#", " ", "t", "\n", "\n", "*", "*", "a", ":", "*", "*", " ", "x", "\n", "\n",
      "y", "\n", "\n", "*", "*", "b", ":", "*", "*", " ", "z">>

\* C15: a run of data_splitter that ends with code 0 has called writeFileSync
\* once for every entry, in order, with the path sanitize(topic) + ".md" in the
\* output directory and the content "# " + topic + blank line + markdown; a
\* write that succeeded and was not overwritten is on the disk; and the
\* markdown that stage 2 makes of [(a,x),(a,y),(b,z)] under topic t gives the
\* content "# t\n\n**a:** x\n\ny\n\n**b:** z".
C15_FilePerEntry ==
    (script = Splitter /\ proc.pc = "exited" /\ proc.exit = 0) =>
        LET data == disk[proc.params.inputFile].content
            outputDir == proc.params.outputDir
        IN  /\ Len(writes) = Len(data)
            /\ \A i \in 1..Len(data) :
                  /\ writes[i].path = EntryPath(data, i, outputDir)
                  /\ writes[i].content = EntryContent(data, i)
                  /\ LastWriteTo(i) =>
                        disk[EntryPath(data, i, outputDir)]
                            = File(EntryContent(data, i), TRUE)
                  /\ (data[i].key = <<"t">>
                        /\ data[i].value = messagesToMarkdown(ExampleMessages))
                        => writes[i].content = ExampleFile

\* C15 witness: the entries "A b" and "t", the latter with the markdown of the
\* example, were written to a_b.md and t.md of the output directory, which did
\* not exist before.
C15_Witness ==
    /\ script = Splitter
    /\ proc.pc = "exited"
    /\ proc.exit = 0
    /\ Len(args) = 2
    /\ Len(writes) = 2
    /\ writes[1].ok
    /\ writes[2].ok
    /\ writes[1].path = <<"/", "o", "/", "a", "_", "b", ".", "m", "d">>
    /\ writes[2].path = <<"/", "o", "/", "t", ".", "m", "d">>
    /\ disk[writes[2].path].content = ExampleFile

\* the string is the decimal numeral of a positive integer
IsPositiveInteger(string) ==
    /\ Len(string) > 0
    /\ \A i \in 1..Len(string) : \E k \in 1..10 : Digits[k] = string[i]
    /\ DecimalValue(string) >= 1

\* a required argument is missing, or the group count of markdown_compactor is
\* no positive integer, or the input file or directory does not exist
BadStart ==
    \/ Len(args) < RequiredArgs(script)
    \/ script = Compactor /\ ~IsPositiveInteger(args[3])
    \/ ~existsSync(disk, pathResolve(args[1]))

\* C19: a run that starts with a missing required argument, with a group count
\* that is no positive integer, or with an input that does not exist creates
\* no file and no directory and ends with exit code 1.
C19_BadStartExitsOne ==
    [][BadStart =>
          /\ disk' = disk
          /\ writes' = <<>>
          /\ proc'.pc = "exited" => proc'.exit = 1]_vars

\* C20: a run of data_splitter in which writeFileSync failed for an entry has
\* still called it once for every entry, in order; the writes that succeeded
\* are on the disk; every failure was logged; and the run ends with code 0.
C20_WriteFailureIsolated ==
    (script = Splitter /\ proc.pc = "exited"
        /\ \E i \in 1..Len(writes) : ~writes[i].ok) =>
        LET data == disk[proc.params.inputFile].content
            outputDir == proc.params.outputDir
            failed == {i \in 1..Len(writes) : ~writes[i].ok}
        IN  /\ proc.exit = 0
            /\ Len(writes) = Len(data)
            /\ \A i \in 1..Len(data) :
                  /\ writes[i].path = EntryPath(data, i, outputDir)
                  /\ LastWriteTo(i) =>
                        disk[writes[i].path] = File(EntryContent(data, i), TRUE)
            /\ Cardinality({k \in 1..Len(errors) : errors[k] = "Error creating"})
                  = Cardinality(failed)
            /\ \A k \in 1..Len(errors) : errors[k] = "Error creating"

\* C20 witness: the write for the first of two entries failed, the file of
\* the second is on the disk, and the run ended with code 0.
C20_Witness ==
    /\ script = Splitter
    /\ proc.pc = "exited"
    /\ proc.exit = 0
    /\ Len(writes) = 2
    /\ ~writes[1].ok
    /\ writes[2].ok
    /\ writes[1].path # writes[2].path
    /\ ~existsSync(disk, writes[1].path)
    /\ existsSync(disk, writes[2].path)
    /\ errors = <<"Error creating">>

\* C21: a pass whose row set holds only ids that are in seenRowIds ends in
\* TERMINATED: it does nothing on any row (no expand, no read, no merge), does
\* not trigger the sentinel and leaves resultByTopic, seenRowIds and
\* lastTerminalRowId as they were.
C21_AllSeenOnlyTerminates ==
    [][(PassStep /\ pass'.ids \subseteq seenRowIds) =>
          /\ pc' = "TERMINATED"
          /\ pass'.log = <<>>
          /\ ~pass'.sentinel
          /\ overall_stuff' = overall_stuff
          /\ seenRowIds' = seenRowIds
          /\ prev_last_row_id' = prev_last_row_id]_vars

\* C21 witness: a pass read rows that were all seen, in an order that put
\* another row last than the pass before, and terminated; records had been
\* merged before.
C21_Witness ==
    /\ pass.exit = "no new rows"
    /\ pass.ids = {"r1", "r2"}
    /\ pass.last # prev_last_row_id
    /\ overall_stuff # EmptyObject

\* C22: a pass that went through its extraction compares the id of the last
\* row of its snapshot with lastTerminalRowId.  If they are equal the driver
\* is TERMINATED and the sentinel is not triggered; otherwise
\* lastTerminalRowId becomes that id, the sentinel is triggered once and the
\* driver waits for the next pass, which starts with lastTerminalRowId equal
\* to the last row id of the snapshot of the pass before.
C22_LastRowComparison ==
    [][/\ (PassStep /\ ~(pass'.ids \subseteq seenRowIds)) =>
             IF pass'.last = prev_last_row_id
             THEN /\ pc' = "TERMINATED"
                  /\ ~pass'.sentinel
                  /\ prev_last_row_id' = prev_last_row_id
             ELSE /\ prev_last_row_id' = pass'.last
                  /\ pass'.sentinel
                  /\ pc' = "AWAITING_MORE"
       /\ pc = "AWAITING_MORE" =>
             /\ pc' = "EXTRACTING"
             /\ prev_last_row_id' = pass.last
             /\ pass'.last = pass.last]_vars

\* the rows a pass merged messages of
Merged(log) == Touched(log, "messages") \cup Touched(log, "duplicate")

\* C23: when a pass terminates the session because the id of the last rendered
\* row equals lastTerminalRowId, its snapshot held no row id outside
\* seenRowIds.
C23_UnchangedLastRowMeansNoNewRows ==
    [][(PassStep /\ pc' = "TERMINATED" /\ pass'.ids # {}
               /\ pass'.last = prev_last_row_id) =>
          pass'.ids \subseteq seenRowIds]_vars

\* C24: after a pass that extracted at least one new row, whether the driver
\* then waits for more or terminates, every row id of the snapshot of the pass
\* is in seenRowIds.
C24_SnapshotIdsSeen ==
    [][(PassStep /\ pc' \in {"AWAITING_MORE", "TERMINATED"}
               /\ Merged(pass'.log) # {}) =>
          pass'.ids \subseteq seenRowIds']_vars

\* C25: a pass that reads an empty row set, the first or a later one, ends in
\* TERMINATED at once: nothing is read or merged, the sentinel is not
\* triggered, resultByTopic, seenRowIds and lastTerminalRowId stay as they
\* were, nothing has been exported before, and the state as it was (empty if
\* this was the first pass) is then exported.
C25_EmptyRowSetTerminates ==
    /\ [][/\ (PassStep /\ pass'.ids = {}) =>
                /\ pc' = "TERMINATED"
                /\ pass'.log = <<>>
                /\ ~pass'.sentinel
                /\ overall_stuff' = overall_stuff
                /\ seenRowIds' = seenRowIds
                /\ prev_last_row_id' = prev_last_row_id
                /\ saved' = <<>>
                /\ prev_last_row_id = InitialPrevLastRowId =>
                      overall_stuff = EmptyObject
          /\ (pass.exit = "no rows" /\ saved' # saved) =>
                (saved' = <<overall_stuff>> /\ overall_stuff' = overall_stuff)]_vars
    /\ (pass.exit = "no rows") ~> (saved = <<overall_stuff>>)

\* C25 witness: after a pass that merged records, a pass read no rows, and
\* the records were exported.
C25_Witness ==
    /\ pass.exit = "no rows"
    /\ seenRowIds # {}
    /\ overall_stuff # EmptyObject
    /\ saved = <<overall_stuff>>

C28_ExpandBeforeRead ==
    [][PassStep =>
          \A i \in 1..Len(pass'.log) :
              LET event == pass'.log[i]
              IN  /\ event.op = "topic" =>
                        (i > 1 /\ pass'.log[i - 1] = Event("expand", event.id))
                  /\ event.op \in {"messages", "duplicate"} =>
                        (i > 1 /\ pass'.log[i - 1] = Event("topic", event.id))]_vars

\* C28 witness: a pass extracted two rows, each expanded, then read.
C28_Witness ==
    /\ Len(pass.log) = 6
    /\ Merged(pass.log) = {"r1", "r2"}
    /\ pass.log[1].op = "expand"
    /\ pass.log[4].op = "expand"

C29_OriginalUntouched ==
    f_pc = "html" => f_out.memory["original"] = f_in.memory["original"]

\* C29 witness: a fragment with a code block in a quotation was normalised
\* and the result differs from the fragment's own markup.
C29_Witness ==
    /\ f_pc = "html"
    /\ f_in.element = "original"
    /\ \E i \in 1..Len(f_in.memory["original"].childNodes) :
          f_in.memory["original"].childNodes[i].tag = "blockquote"
    /\ f_out.html # innerHTML(f_in.memory["original"])

\* the wrapper holds a pre element with a code element inside
HasPayload(block) ==
    \E p \in Range(querySelectorAll(block, "pre")) :
        querySelectorAll(NodeAt(block, p), "code") # <<>>

\* the text of the code element in the pre element of a wrapper
PayloadText(block) ==
    LET p == CHOOSE p \in Range(querySelectorAll(block, "pre")) :
                 querySelectorAll(NodeAt(block, p), "code") # <<>>
        pre == NodeAt(block, p)
    IN  textContent(NodeAt(pre, querySelectorAll(pre, "code")[1]))

\* the plain pre/code pair for a wrapper: the language tag, if there is one
\* and it is not empty, lower-cased and trimmed after "language-" as the class
\* of the code element, the payload text as its text
PlainPair(block) ==
    LET tag == block.language
        class == IF tag = <<>> \/ tag = <<<<>>>> THEN <<>>
                 ELSE <<"language-">> \o TrimWhitespace(toLowerCase(tag[1]))
    IN  Element("pre", <<>>, <<>>,
                <<Element("code", class, <<>>, <<TextNode(PayloadText(block))>>)>>)

\* a tree with every wrapper that has a payload replaced by its plain pair
\* and everything else as it is
RECURSIVE Normalized(_)
Normalized(node) ==
    IF Matches(node, "div.codehilite.zulip-code-block")
    THEN IF HasPayload(node) THEN PlainPair(node) ELSE node
    ELSE [node EXCEPT !.childNodes = [i \in 1..Len(@) |-> Normalized(@[i])]]

\* C30: the markup getPreprocessedMessageHtml returns for a fragment is the
\* fragment's with every code-block wrapper that holds a pre with a code
\* inside replaced by a plain pre/code pair (text: the payload's text, class:
\* the language tag lower-cased and trimmed) and with every other wrapper,
\* and everything else, in place and unchanged.
C30_WrappersReplaced ==
    (f_pc = "html" /\ f_in.element = "original") =>
        f_out.html = innerHTML(Normalized(f_in.memory["original"]))

\* C30 witness: a fragment of a wrapper without code followed by a wrapper
\* tagged " JS " with highlighted code was normalised: the first is in place,
\* the second is a pre/code pair of class language-js with the text "If <".
C30_Witness ==
    /\ f_pc = "html"
    /\ Len(f_out.html) = 2
    /\ Matches(f_out.html[1], "div.codehilite.zulip-code-block")
    /\ f_out.html[1] = f_in.memory["original"].childNodes[1]
    /\ f_in.memory["original"].childNodes[2].language = <<<<" ", "J", "S", " ">>>>
    /\ f_out.html[2] =
          Element("pre", <<>>, <<>>,
                  <<Element("code", <<"language-", "j", "s">>, <<>>,
                            <<TextNode(<<"I", "f", " ", "<">>)>>)>>)

\* the markdown files of the input directory of markdown_compactor, in the
\* order of their names
InputFiles ==
    LET found == {k \in 1..MaxFiles :
                     pathJoin(proc.params.inputDir, FileName(k)) \in DOMAIN disk}
    IN  [i \in 1..Cardinality(found) |->
            pathJoin(proc.params.inputDir, FileName(Ascending(found)[i]))]

\* "group_" k "_of_" n "_1_files.md"
SingleFileGroupName(k, n) ==
    <<"g", "r", "o", "u", "p", "_">> \o NumberToString(k) \o <<"_", "o", "f", "_">>
        \o NumberToString(n) \o <<"_", "1", "_", "f", "i", "l", "e", "s", ".", "m", "d">>

\* C31: a run of markdown_compactor that ends with code 0 and was asked for
\* at least as many groups as the input directory has markdown files has
\* written exactly one group file per input file, in the order of the files:
\* the k-th is named group_k_of_n_1_files.md with n the number of files (not
\* the number asked for), holds the k-th file alone and is on the disk; no
\* file was written for a group without files.
C31_OneFilePerGroup ==
    (script = Compactor /\ proc.pc = "exited" /\ proc.exit = 0
        /\ proc.params.groupCount >= Len(InputFiles)) =>
        LET n == Len(InputFiles)
        IN  /\ Len(writes) = n
            /\ \A k \in 1..n :
                  LET file == disk[InputFiles[k]]
                      content == combineMarkdownFiles(
                                     <<[name |-> InputFiles[k], content |-> file.content,
                                        readable |-> file.readable]>>)
                      path == pathJoin(proc.params.outputDir, SingleFileGroupName(k, n))
                  IN  /\ writes[k] = [path |-> path, content |-> content, ok |-> TRUE]
                      /\ disk[path] = File(content, TRUE)

\* C31 witness: asked for 2 groups over a directory with the one file a.md,
\* the compactor wrote group_1_of_1_1_files.md and nothing else.
C31_Witness ==
    /\ script = Compactor
    /\ proc.pc = "exited"
    /\ proc.exit = 0
    /\ proc.params.groupCount = 2
    /\ Len(InputFiles) = 1
    /\ Len(writes) = 1
    /\ writes[1].path = <<"/", "o", "/", "g", "r", "o", "u", "p", "_", "1", "_", "o", "f",
                          "_", "1", "_", "1", "_", "f", "i", "l", "e", "s", ".", "m", "d">>
    /\ writes[1].content # <<>>

\* C32: a run of data_splitter that ends with code 0 and in which no write
\* failed has written every entry of the input to a path of its own: no two
\* topics share a path, the output directory holds as many written files as
\* the input has entries, and every topic's file still holds that topic.
C32_OneFilePerTopic ==
    (script = Splitter /\ proc.pc = "exited" /\ proc.exit = 0
        /\ \A i \in 1..Len(writes) : writes[i].ok) =>
        LET data == disk[proc.params.inputFile].content
            outputDir == proc.params.outputDir
        IN  /\ \A i, j \in 1..Len(data) :
                  i # j => EntryPath(data, i, outputDir) # EntryPath(data, j, outputDir)
            /\ Cardinality({writes[i].path : i \in 1..Len(writes)}) = Len(data)
            /\ \A i \in 1..Len(data) :
                  disk[EntryPath(data, i, outputDir)] = File(EntryContent(data, i), TRUE)

\* the senders of a list of records, in order
Senders(messages) == [i \in 1..Len(messages) |-> messages[i].sender]

\* a sequence with every element that repeats the one before it left out
RECURSIVE WithoutRepeats(_)
WithoutRepeats(s) ==
    IF Len(s) <= 1 THEN s
    ELSE LET front == WithoutRepeats(SubSeq(s, 1, Len(s) - 1))
         IN  IF s[Len(s)] = s[Len(s) - 1] THEN front ELSE Append(front, s[Len(s)])

====
